---------------------------- MODULE Spec2Model ----------------------------
(***************************************************************************)
(* Expense tracker Discord bot.  Two entry files exist in the repository:  *)
(* src/index.js (regex parser, help command) and src/unnamed/part_000      *)
(* (tokenizing parser).  The variable build says which one is running.     *)
(*                                                                         *)
(* Text is a sequence of one-character strings, so that the parser's       *)
(* regular expressions, parseFloat and the prefix test are computed        *)
(* character by character as the code computes them.                       *)
(***************************************************************************)
EXTENDS Integers, Sequences, FiniteSets, TLC

VARIABLES build, proc, exitCode, log, readyPc, sheetInit, msgs

vars == <<build, proc, exitCode, log, readyPc, sheetInit, msgs>>

(***************************************************************************)
(* Bounds                                                                  *)
(***************************************************************************)
\* number of messages whose handlers may be in flight together
MaxMsgs == 2

\* number of argument tokens after the command word in the parser inputs
MaxArgs == 3

(***************************************************************************)
(* Characters and strings                                                  *)
(***************************************************************************)
Digits == {"0", "1", "2", "3", "4", "5", "6", "7", "8", "9"}

\* \d
IsDigit(c) == c \in Digits

\* \s (the inputs drawn below use the space and the tab)
IsSpace(c) == c \in {" ", "\t"}

\* \S
NotSpace(c) == ~IsSpace(c)

\* ["']
IsQuote(c) == c \in {"\"", "'"}

\* [^"']
NotQuote(c) == ~IsQuote(c)

\* [^\s"']
IsPlain(c) == ~IsSpace(c) /\ ~IsQuote(c)

\* \.
IsDot(c) == c = "."

\* [^-0-9]
NotHyphenDigit(c) == c # "-" /\ ~IsDigit(c)

DigitVal(c) ==
    CASE c = "0" -> 0 [] c = "1" -> 1 [] c = "2" -> 2 [] c = "3" -> 3
      [] c = "4" -> 4 [] c = "5" -> 5 [] c = "6" -> 6 [] c = "7" -> 7
      [] c = "8" -> 8 [] c = "9" -> 9

\* case folding of the i flag, for the letters of the command word
Lower(c) ==
    CASE c = "E" -> "e" [] c = "X" -> "x" [] c = "P" -> "p"
      [] c = "N" -> "n" [] c = "S" -> "s" [] c = "H" -> "h"
      [] c = "L" -> "l" [] OTHER -> c

LowerStr(s) == [i \in 1..Len(s) |-> Lower(s[i])]

\* String.prototype.startsWith: case-sensitive
StartsWith(s, p) == Len(s) >= Len(p) /\ SubSeq(s, 1, Len(p)) = p

\* the command word
Prefix == <<"!", "e", "x", "p", "e", "n", "s", "e">>

HelpCommand == <<"!", "e", "x", "p", "e", "n", "s", "e", "h", "e", "l", "p">>

RECURSIVE SkipSpaces(_, _)
\* first index >= i of s that holds no whitespace (Len(s)+1 when none)
SkipSpaces(s, i) ==
    IF i <= Len(s) /\ IsSpace(s[i]) THEN SkipSpaces(s, i + 1) ELSE i

RECURSIVE SkipSpacesBack(_, _)
\* last index <= i of s that holds no whitespace (0 when none)
SkipSpacesBack(s, i) ==
    IF i >= 1 /\ IsSpace(s[i]) THEN SkipSpacesBack(s, i - 1) ELSE i

\* String.prototype.trim
Trim(s) == SubSeq(s, SkipSpaces(s, 1), SkipSpacesBack(s, Len(s)))

\* content.replace(/^!expense\s+/i, '')
StripPrefix(content) ==
    IF /\ StartsWith(LowerStr(content), Prefix)
       /\ Len(content) > Len(Prefix)
       /\ IsSpace(content[Len(Prefix) + 1])
    THEN SubSeq(content, SkipSpaces(content, Len(Prefix) + 1), Len(content))
    ELSE content

RECURSIVE NextQuote(_, _)
\* index of the first quote character of s at or after i, 0 when none
NextQuote(s, i) ==
    IF i > Len(s) THEN 0
    ELSE IF IsQuote(s[i]) THEN i
    ELSE NextQuote(s, i + 1)

RECURSIVE ItemsEnd(_, _)
\* (?:[^\s"']+|["'][^"']*["'])+ tried at i: the index after the longest match
\* (i itself when it does not match at i)
ItemsEnd(s, i) ==
    IF i > Len(s) THEN i
    ELSE IF IsPlain(s[i]) THEN ItemsEnd(s, i + 1)
    ELSE IF IsQuote(s[i]) /\ NextQuote(s, i + 1) # 0
         THEN ItemsEnd(s, NextQuote(s, i + 1) + 1)
    ELSE i

RECURSIVE TokensFrom(_, _)
\* the successive matches of the g-flagged pattern from index i on
TokensFrom(s, i) ==
    IF i > Len(s) THEN <<>>
    ELSE LET e == ItemsEnd(s, i)
         IN  IF e > i THEN <<SubSeq(s, i, e - 1)>> \o TokensFrom(s, e)
             ELSE TokensFrom(s, i + 1)

\* commandContent.match(/(?:[^\s"']+|["'][^"']*["'])+/g) || []
Tokenize(s) == TokensFrom(s, 1)

\* t.replace(/["']/g, '')
StripQuotes(t) == SelectSeq(t, NotQuote)

RECURSIVE IndexOf(_, _, _)
\* first index >= i of s that holds c, 0 when none
IndexOf(s, c, i) ==
    IF i > Len(s) THEN 0
    ELSE IF s[i] = c THEN i
    ELSE IndexOf(s, c, i + 1)

\* t.replace('$', ''): a string pattern replaces the first occurrence only
RemoveFirstDollar(t) ==
    LET k == IndexOf(t, "$", 1)
    IN  IF k = 0 THEN t ELSE SubSeq(t, 1, k - 1) \o SubSeq(t, k + 1, Len(t))

\* /^\d{4}-\d{2}-\d{2}$/
IsDateToken(t) ==
    /\ Len(t) = 10
    /\ \A i \in 1..10 : IF i \in {5, 8} THEN t[i] = "-" ELSE IsDigit(t[i])

RECURSIVE JoinSpace(_)
\* parts.join(' ')
JoinSpace(ts) ==
    IF Len(ts) = 0 THEN <<>>
    ELSE IF Len(ts) = 1 THEN ts[1]
    ELSE ts[1] \o <<" ">> \o JoinSpace(Tail(ts))

(***************************************************************************)
(* parseFloat                                                              *)
(***************************************************************************)
\* A Number as parseFloat yields it: NaN, an infinity, or the decimal
\* (-1)^neg * mant * 10^exp with mant not divisible by 10 (0 has exp 0).
\* Binary rounding and exponents beyond the double range are out of reach of
\* the inputs drawn below.
NaN == [kind |-> "NaN", neg |-> FALSE, mant |-> 0, exp |-> 0]

Infinity(neg) == [kind |-> "Infinity", neg |-> neg, mant |-> 0, exp |-> 0]

RECURSIVE Normalized(_, _, _)
Normalized(neg, mant, exp) ==
    IF mant = 0 THEN [kind |-> "number", neg |-> neg, mant |-> 0, exp |-> 0]
    ELSE IF mant % 10 = 0 THEN Normalized(neg, mant \div 10, exp + 1)
    ELSE [kind |-> "number", neg |-> neg, mant |-> mant, exp |-> exp]

RECURSIVE DigitsEnd(_, _)
\* index after the run of digits of s that starts at i
DigitsEnd(s, i) ==
    IF i <= Len(s) /\ IsDigit(s[i]) THEN DigitsEnd(s, i + 1) ELSE i

RECURSIVE NatOf(_)
\* the number a sequence of digits writes
NatOf(ds) ==
    IF Len(ds) = 0 THEN 0
    ELSE 10 * NatOf(SubSeq(ds, 1, Len(ds) - 1)) + DigitVal(ds[Len(ds)])

InfinityWord == <<"I", "n", "f", "i", "n", "i", "t", "y">>

\* the ExponentPart at index e0 of s, as a number (0 when there is none: an
\* e that no digits follow is not part of the literal)
ExponentAt(s, e0) ==
    LET signed == e0 + 1 <= Len(s) /\ s[e0 + 1] \in {"+", "-"}
        e1     == IF signed THEN e0 + 2 ELSE e0 + 1
    IN  IF e0 <= Len(s) /\ s[e0] \in {"e", "E"} /\ DigitsEnd(s, e1) > e1
        THEN (IF s[e0 + 1] = "-" THEN 0 - 1 ELSE 1)
               * NatOf(SubSeq(s, e1, DigitsEnd(s, e1) - 1))
        ELSE 0

\* the fraction digits after the integer digits that end before index intE
FractionAt(s, intE) ==
    IF intE <= Len(s) /\ s[intE] = "."
    THEN SubSeq(s, intE + 1, DigitsEnd(s, intE + 1) - 1)
    ELSE <<>>

\* index after the mantissa whose integer digits end before index intE
MantissaEnd(s, intE) ==
    IF intE <= Len(s) /\ s[intE] = "." THEN DigitsEnd(s, intE + 1) ELSE intE

\* the unsigned StrDecimalLiteral at index i1 of s
UnsignedAt(s, i1, neg) ==
    LET intE == DigitsEnd(s, i1)
    IN  IF /\ i1 + Len(InfinityWord) - 1 <= Len(s)
           /\ SubSeq(s, i1, i1 + Len(InfinityWord) - 1) = InfinityWord
        THEN Infinity(neg)
        ELSE IF (intE - i1) + Len(FractionAt(s, intE)) = 0 THEN NaN
        ELSE Normalized(neg,
                        NatOf(SubSeq(s, i1, intE - 1) \o FractionAt(s, intE)),
                        ExponentAt(s, MantissaEnd(s, intE))
                          - Len(FractionAt(s, intE)))

\* the literal after the leading whitespace, with its optional sign
SignedAt(s, i0) ==
    IF i0 <= Len(s) /\ s[i0] \in {"+", "-"}
    THEN UnsignedAt(s, i0 + 1, s[i0] = "-")
    ELSE UnsignedAt(s, i0, FALSE)

\* parseFloat(s): the longest prefix of the trimmed string that is a
\* StrDecimalLiteral, NaN when there is none
parseFloat(s) == SignedAt(s, SkipSpaces(s, 1))

\* isNaN(amount)
isNaN(a) == a.kind = "NaN"

(***************************************************************************)
(* parseExpense                                                            *)
(***************************************************************************)
\* new Date().toISOString().split('T')[0] on the processing day
Today == <<"2", "0", "2", "4", "-", "0", "1", "-", "1", "5">>

NoDescription ==
    <<"N", "o", " ", "d", "e", "s", "c", "r", "i", "p", "t", "i", "o", "n">>

\* what a call of parseExpense ends with: the row
\* [date, amount, category, description, author], null, or a thrown TypeError
Row(date, amount, category, description, author) ==
    [kind |-> "record", date |-> date, amount |-> amount,
     category |-> category, description |-> description, author |-> author]

Null ==
    [kind |-> "null", date |-> <<>>, amount |-> NaN, category |-> <<>>,
     description |-> <<>>, author |-> ""]

Thrown ==
    [kind |-> "throw", date |-> <<>>, amount |-> NaN, category |-> <<>>,
     description |-> <<>>, author |-> ""]

\* the handler did not call the parser
NotCalled ==
    [kind |-> "notcalled", date |-> <<>>, amount |-> NaN, category |-> <<>>,
     description |-> <<>>, author |-> ""]

\* parts: the tokens of the text after the command word
Parts(content) == Tokenize(Trim(StripPrefix(content)))

\* input.author?.username || 'Unknown'
AuthorName(author) == IF author.username = "" THEN "Unknown" ELSE author.username

\* the description once parts holds more than amount and category
DescriptionOf(rest) == StripQuotes(JoinSpace(SubSeq(rest, 3, Len(rest))))

\* parseExpense of src/unnamed/part_000, called with the Message object
parseExpenseTokens(content, author) ==
    LET parts == Parts(content)
    IN  IF Len(parts) < 2 THEN Null
        ELSE
        LET amount == parseFloat(RemoveFirstDollar(parts[1]))
        IN  IF isNaN(amount) THEN Null
            ELSE
            LET category == StripQuotes(parts[2])
                hasDate  == Len(parts) > 2 /\ IsDateToken(parts[Len(parts)])
                rest     == IF hasDate THEN SubSeq(parts, 1, Len(parts) - 1)
                            ELSE parts
                date     == IF hasDate THEN parts[Len(parts)] ELSE Today
                description ==
                    IF Len(parts) > 2 THEN DescriptionOf(rest) ELSE NoDescription
            IN  Row(date, amount, category, description, AuthorName(author))

\* Regular-expression matching for src/index.js, by sets of positions: P holds
\* the indices at which the rest of the pattern may go on.
AfterLiteral(s, P, lit) ==
    { p + Len(lit) :
        p \in { q \in P : /\ q + Len(lit) - 1 <= Len(s)
                          /\ SubSeq(s, q, q + Len(lit) - 1) = lit } }

\* the character classes of the pattern, by name
InClass(cls, c) ==
    CASE cls = "\\s"      -> IsSpace(c)
      [] cls = "\\S"      -> NotSpace(c)
      [] cls = "\\d"      -> IsDigit(c)
      [] cls = "\\."      -> IsDot(c)
      [] cls = "[quote]"  -> IsQuote(c)
      [] cls = "[^quote]" -> NotQuote(c)
      [] cls = "[^-0-9]"  -> NotHyphenDigit(c)

\* one character of the class
AfterOne(s, P, cls) ==
    { p + 1 : p \in { q \in P : q <= Len(s) /\ InClass(cls, s[q]) } }

\* class+
AfterPlus(s, P, cls) ==
    { e \in 2..(Len(s) + 1) :
        \E p \in P : p < e /\ \A k \in p..(e - 1) : InClass(cls, s[k]) }

\* class*
AfterStar(s, P, cls) == P \cup AfterPlus(s, P, cls)

\* class?
AfterOpt(s, P, cls) == P \cup AfterOne(s, P, cls)

\* \d{4}-\d{2}-\d{2}
AfterDate(s, P) ==
    { p + 10 :
        p \in { q \in P : q + 9 <= Len(s) /\ IsDateToken(SubSeq(s, q, q + 9)) } }

\* message.match(/!expense\s+(\d+\.?\d*)\s+(\S+)\s+
\*   (?:["']([^"']+)["']|(\S[^-0-9]+?))(?:\s+(\d{4}-\d{2}-\d{2}))?$/) is not null
RegexMatches(s) ==
    LET start  == 1..(Len(s) + 1)
        word   == AfterLiteral(s, start, Prefix)
        sp1    == AfterPlus(s, word, "\\s")
        amount == AfterStar(s, AfterOpt(s, AfterPlus(s, sp1, "\\d"), "\\."),
                            "\\d")
        sp2    == AfterPlus(s, amount, "\\s")
        cat    == AfterPlus(s, sp2, "\\S")
        sp3    == AfterPlus(s, cat, "\\s")
        quoted == AfterOne(s, AfterPlus(s, AfterOne(s, sp3, "[quote]"), "[^quote]"),
                           "[quote]")
        bare   == AfterPlus(s, AfterOne(s, sp3, "\\S"), "[^-0-9]")
        desc   == quoted \cup bare
        dated  == AfterDate(s, AfterPlus(s, desc, "\\s"))
    IN  (Len(s) + 1) \in (desc \cup dated)

\* parseExpense of src/index.js, called with message.content (a string): on a
\* match, message.author is undefined and reading .username of it throws
parseExpenseRegex(content) ==
    IF ~RegexMatches(content) THEN Null ELSE Thrown

(***************************************************************************)
(* Inputs                                                                  *)
(***************************************************************************)
Alice == [username |-> "alice", bot |-> FALSE]

LedgerBot == [username |-> "ledgerbot", bot |-> TRUE]

Authors == {Alice, LedgerBot}

MsgLunch ==
    <<"!", "e", "x", "p", "e", "n", "s", "e", " ", "5", " ", "f", "o", "o",
      "d", " ", "l", "u", "n", "c", "h">>

MsgUpper ==
    <<"!", "E", "X", "P", "E", "N", "S", "E", " ", "5", " ", "f", "o", "o",
      "d", " ", "l", "u", "n", "c", "h">>

MsgHelp == <<"!", "e", "x", "p", "e", "n", "s", "e", "h", "e", "l", "p">>

MsgBadAmount ==
    <<"!", "e", "x", "p", "e", "n", "s", "e", " ", "a", "b", "c", " ", "f",
      "o", "o", "d">>

MsgChat == <<"h", "e", "l", "l", "o">>

MsgTab ==
    <<"!", "e", "x", "p", "e", "n", "s", "e", "\t", "$", "1", "5", " ", "t",
      "r", "a", "n", "s", "p", "o", "r", "t", " ", "U", "b", "e", "r">>

\* the message texts of the concurrent specification
HandlerContents == {MsgLunch, MsgUpper, MsgHelp,
                    MsgBadAmount, MsgChat, MsgTab}

Tok5 == <<"5">>

TokMoney == <<"1", "2", ".", "5", "0">>

TokNoLead == <<".", "5", "0">>

TokDollar == <<"$", "1", "5">>

TokTwoDots == <<"1", ".", "2", ".", "3">>

TokThousands == <<"1", ",", "2", "0", "0">>

TokLetters == <<"1", "2", "a", "b", "c">>

TokInnerDollar == <<"1", "$", "5">>

TokNegative == <<"-", "5">>

TokInfinity == <<"I", "n", "f", "i", "n", "i", "t", "y">>

TokWord == <<"a", "b", "c">>

TokFood == <<"f", "o", "o", "d">>

TokEmptyQuoted == <<"\"", "\"">>

TokQuoted == <<"'", "t", "e", "a", "m", " ", "l", "u", "n", "c", "h", "'">>

TokDate == <<"2", "0", "2", "3", "-", "0", "5", "-", "2", "0">>

TokDigits == <<"1", "2", "3", "4", "5">>

ArgTokens ==
    {Tok5, TokMoney, TokNoLead, TokDollar,
     TokTwoDots, TokThousands, TokLetters, TokInnerDollar,
     TokNegative, TokInfinity, TokWord, TokFood,
     TokEmptyQuoted, TokQuoted, TokDate, TokDigits}

\* the command word followed by the argument tokens, one space between them
CommandText(args) ==
    IF Len(args) = 0 THEN Prefix ELSE Prefix \o <<" ">> \o JoinSpace(args)

\* the argument lists of the parser specification
ArgLists(n) == [1..n -> ArgTokens]

(***************************************************************************)
(* Replies                                                                 *)
(***************************************************************************)
\* a reply: its fixed text (without the emoji and the example in backticks),
\* and the values interpolated into it
Reply(text) == [text |-> text, amount |-> NaN, category |-> <<>>]

\* the usage hint sent when parseExpense returns null
UsageReply(b) ==
    IF b = "index"
    THEN Reply("Invalid format. Use: !expense [amount] [category] [description] [date?]")
    ELSE Reply("Invalid format. Try: !expense 5.99 coffee latte")

\* the confirmation: `... $${expenseData[1]} for ${expenseData[2]}`
ConfirmReply(b, row) ==
    [text     |-> IF b = "index" THEN "Expense logged: $<amount> for <category>"
                  ELSE "Logged $<amount> for <category>",
     amount   |-> row.amount,
     category |-> row.category]

\* appendToSheet returned false
FailedReply(b) ==
    IF b = "index" THEN Reply("Failed to log expense. Please try again.")
    ELSE Reply("Failed silently - check bot logs")

\* the catch block of the handler
ErrorReply(b) ==
    IF b = "index" THEN Reply("An error occurred while logging your expense.")
    ELSE Reply("CRASHED: <error.message>")

HelpReply == Reply("Expense Tracker Bot Help")

(***************************************************************************)
(* The messageCreate handler                                               *)
(***************************************************************************)
MsgIds == 1..MaxMsgs

NoMessage ==
    [pc |-> "none", content |-> <<>>, author |-> Alice, parsed |-> NotCalled,
     appendCalls |-> 0, result |-> "none", replies |-> <<>>]

\* message.content.startsWith('!expense')
IsCommand(content) == StartsWith(content, Prefix)

\* the call of parseExpense each file makes
parseExpense(b, content, author) ==
    IF b = "index" THEN parseExpenseRegex(content)
    ELSE parseExpenseTokens(content, author)

\* a handler without the null test: every parse result goes on to the ledger
RejectsParse_Never(parsed) == FALSE

\* if (!expenseData)
RejectsParse(parsed) == parsed.kind = "null"

\* if (message.content === '!expensehelp'), the last statement of the handler
\* of src/index.js; src/unnamed/part_000 has no help command
HelpReplies(b, content) ==
    IF b = "index" /\ content = HelpCommand THEN <<HelpReply>> ELSE <<>>

\* The handler up to its first await: where it stands then, what parseExpense
\* returned and what it has replied.
HandlerStart(b, content, author) ==
    IF author.bot
    THEN [pc |-> "done", parsed |-> NotCalled, replies |-> <<>>]
    ELSE IF ~IsCommand(content)
    THEN [pc |-> "done", parsed |-> NotCalled,
          replies |-> HelpReplies(b, content)]
    ELSE LET parsed == parseExpense(b, content, author)
         IN  IF parsed.kind = "throw"
             THEN [pc |-> "threw", parsed |-> parsed, replies |-> <<>>]
             ELSE IF RejectsParse(parsed)
             THEN [pc |-> "done", parsed |-> parsed,
                   replies |-> <<UsageReply(b)>>]
             ELSE [pc |-> "auth", parsed |-> parsed, replies |-> <<>>]

\* A message arrives and its handler runs to its first await.  A TypeError
\* thrown by parseExpense is outside the try block: the handler's promise
\* rejects with nobody handling it, which ends the process (exit status 1) or
\* only warns, depending on the Node version and its flags.  discord.js
\* dispatches no message event before the ready event.
MessageCreate(m, content, author, fatal) ==
    /\ proc = "running"
    /\ readyPc # "login"
    /\ msgs[m].pc = "none"
    /\ \A k \in MsgIds : k < m => msgs[k].pc # "none"
    /\ LET h == HandlerStart(build, content, author)
       IN  /\ msgs' = [msgs EXCEPT ![m] =
                          [pc |-> h.pc, content |-> content, author |-> author,
                           parsed |-> h.parsed, appendCalls |-> 0,
                           result |-> "none", replies |-> h.replies]]
           /\ IF h.pc = "threw" /\ fatal
              THEN proc' = "exited" /\ exitCode' = 1
              ELSE UNCHANGED <<proc, exitCode>>
    /\ UNCHANGED <<build, log, readyPc, sheetInit>>

\* await authorize(), then the call of appendToSheet up to its await of
\* sheets.spreadsheets.values.append: one request goes to the ledger.  An error
\* thrown before the request (by authorize or by google.sheets) is caught by
\* the handler's catch block.
Authorize(m, ok) ==
    /\ proc = "running"
    /\ msgs[m].pc = "auth"
    /\ msgs' = [msgs EXCEPT ![m] =
          IF ok
          THEN [@ EXCEPT !.pc = "append", !.appendCalls = @ + 1,
                         !.result = "pending"]
          ELSE [@ EXCEPT !.pc = "done", !.result = "threw",
                         !.replies = Append(@, ErrorReply(build))
                                       \o HelpReplies(build, msgs[m].content)]]
    /\ UNCHANGED <<build, proc, exitCode, log, readyPc, sheetInit>>

\* a handler that goes back to the ledger after a failed append
AfterAppend_Retry(success) == IF success THEN "done" ELSE "auth"

\* where the handler goes once appendToSheet has returned: it replies and
\* returns, whatever the result
AfterAppend(success) == "done"

\* The append request settles: appendToSheet returns true, or catches the
\* error and returns false, and the handler replies.
AppendSettles(m, success) ==
    /\ proc = "running"
    /\ msgs[m].pc = "append"
    /\ msgs' = [msgs EXCEPT ![m] =
          [@ EXCEPT !.pc = AfterAppend(success),
                    !.result = IF success THEN "ok" ELSE "failed",
                    !.replies =
                        Append(@, IF success
                                  THEN ConfirmReply(build, msgs[m].parsed)
                                  ELSE FailedReply(build))
                          \o HelpReplies(build, msgs[m].content)]]
    /\ UNCHANGED <<build, proc, exitCode, log, readyPc, sheetInit>>

(***************************************************************************)
(* The ready handler and initializeSheet                                   *)
(***************************************************************************)
\* initializeSheet's catch block: console.error, return false.  The ready
\* handler awaits the call and does not look at what it returned.
InitializeSheetFails ==
    /\ log' = log \cup {"Error initializing sheet"}
    /\ sheetInit' = "failed"
    /\ readyPc' = "done"
    /\ UNCHANGED <<build, proc, exitCode, msgs>>

\* The ready event: authorize() inside try; an error it throws reaches the
\* catch block (console.error, process.exit(1)); otherwise initializeSheet
\* starts and awaits sheets.spreadsheets.get.
Ready(ok) ==
    /\ proc = "running"
    /\ readyPc = "login"
    /\ IF ok
       THEN /\ readyPc' = "get"
            /\ log' = log \cup {"Logged in"}
            /\ UNCHANGED <<proc, exitCode>>
       ELSE /\ readyPc' = "done"
            /\ log' = log \cup {"Logged in", "Failed to initialize sheet"}
            /\ proc' = "exited"
            /\ exitCode' = 1
    /\ UNCHANGED <<build, sheetInit, msgs>>

\* sheets.spreadsheets.get settles: an error, or the spreadsheet with or
\* without a sheet titled SHEET_NAME
SpreadsheetsGet(outcome) ==
    /\ proc = "running"
    /\ readyPc = "get"
    /\ IF outcome = "error" THEN InitializeSheetFails
       ELSE /\ readyPc' = IF outcome = "exists" THEN "update" ELSE "addSheet"
            /\ UNCHANGED <<build, proc, exitCode, log, sheetInit, msgs>>

\* the addSheet batchUpdate settles
AddSheet(ok) ==
    /\ proc = "running"
    /\ readyPc = "addSheet"
    /\ IF ~ok THEN InitializeSheetFails
       ELSE /\ readyPc' = "update"
            /\ log' = log \cup {"Created new sheet"}
            /\ UNCHANGED <<build, proc, exitCode, sheetInit, msgs>>

\* the header values.update settles
UpdateHeaders(ok) ==
    /\ proc = "running"
    /\ readyPc = "update"
    /\ IF ~ok THEN InitializeSheetFails
       ELSE /\ readyPc' = "format"
            /\ UNCHANGED <<build, proc, exitCode, log, sheetInit, msgs>>

\* the repeatCell batchUpdate settles; initializeSheet returns true
FormatHeaders(ok) ==
    /\ proc = "running"
    /\ readyPc = "format"
    /\ IF ~ok THEN InitializeSheetFails
       ELSE /\ readyPc' = "done"
            /\ sheetInit' = "ok"
            /\ log' = log \cup {"Sheet initialized with headers"}
            /\ UNCHANGED <<build, proc, exitCode, msgs>>

(***************************************************************************)
(* Specifications                                                          *)
(***************************************************************************)
\* discordClient.login: the process runs, nothing has happened yet
Init ==
    /\ build \in {"index", "part_000"}
    /\ proc = "running"
    /\ exitCode = 0
    /\ log = {}
    /\ readyPc = "login"
    /\ sheetInit = "pending"
    /\ msgs = [m \in MsgIds |-> NoMessage]

Next ==
    \/ \E ok \in BOOLEAN : Ready(ok)
    \/ \E outcome \in {"error", "exists", "missing"} : SpreadsheetsGet(outcome)
    \/ \E ok \in BOOLEAN : AddSheet(ok)
    \/ \E ok \in BOOLEAN : UpdateHeaders(ok)
    \/ \E ok \in BOOLEAN : FormatHeaders(ok)
    \/ \E m \in MsgIds, c \in HandlerContents, a \in Authors, fatal \in BOOLEAN :
          MessageCreate(m, c, a, fatal)
    \/ \E m \in MsgIds, ok \in BOOLEAN : Authorize(m, ok)
    \/ \E m \in MsgIds, success \in BOOLEAN : AppendSettles(m, success)

Spec == Init /\ [][Next]_vars

\* The parser on its own: src/unnamed/part_000 after a successful start, one
\* message made of the command word and up to MaxArgs tokens.
InitParse ==
    /\ build = "part_000"
    /\ proc = "running"
    /\ exitCode = 0
    /\ log = {"Logged in", "Sheet initialized with headers"}
    /\ readyPc = "done"
    /\ sheetInit = "ok"
    /\ msgs = [m \in MsgIds |-> NoMessage]

NextParse ==
    \/ \E n \in 0..MaxArgs : \E args \in ArgLists(n) :
          MessageCreate(1, CommandText(args), Alice, FALSE)
    \/ \E ok \in BOOLEAN : Authorize(1, ok)
    \/ \E success \in BOOLEAN : AppendSettles(1, success)

SpecParse == InitParse /\ [][NextParse]_vars

(***************************************************************************)
(* Properties                                                              *)
(***************************************************************************)
\* the handler of message m has returned or thrown
Finished(m) == msgs[m].pc \in {"done", "threw"}

\* a non-bot message whose content starts with the command word
IsExpenseCommand(m) ==
    /\ msgs[m].pc # "none"
    /\ ~msgs[m].author.bot
    /\ IsCommand(msgs[m].content)

\* C1: parse failures never reach the ledger: a message whose text
\* parseExpense rejects (returns null) has no appendToSheet call, whatever
\* the other messages being handled do.
C1_RejectedNeverAppended ==
    \A m \in MsgIds : msgs[m].parsed.kind = "null" => msgs[m].appendCalls = 0

\* C1 witness: a rejected message has been answered while the append of
\* another message is in flight.
C1_Witness ==
    \E m, k \in MsgIds :
        /\ msgs[m].parsed.kind = "null"
        /\ msgs[m].pc = "done"
        /\ msgs[m].replies = <<UsageReply(build)>>
        /\ msgs[k].pc = "append"
        /\ msgs[k].appendCalls = 1

\* C2: parseExpense never raises an error: every call the handler makes
\* returns a record or null, also on input that matches the accepted format.
C2_ParserNeverThrows ==
    \A m \in MsgIds : msgs[m].parsed.kind \in {"notcalled", "null", "record"}

\* C3: every non-bot message starting with the command word has, once its
\* handler is over, exactly one reply: the usage hint when the parse is
\* rejected, a confirmation with the parsed amount and category when the
\* append succeeds, a failure message other than the usage hint when the
\* append fails or throws.
C3_ExactlyOneReply ==
    \A m \in MsgIds :
        (IsExpenseCommand(m) /\ Finished(m)) =>
            /\ Len(msgs[m].replies) = 1
            /\ msgs[m].parsed.kind = "null" =>
                  msgs[m].replies[1] = UsageReply(build)
            /\ msgs[m].result = "ok" =>
                  /\ msgs[m].replies[1].amount = msgs[m].parsed.amount
                  /\ msgs[m].replies[1].category = msgs[m].parsed.category
                  /\ msgs[m].replies[1].text # UsageReply(build).text
            /\ msgs[m].result \in {"failed", "threw"} =>
                  /\ msgs[m].replies[1] \in {FailedReply(build), ErrorReply(build)}
                  /\ msgs[m].replies[1] # UsageReply(build)

\* C4: each message has at most one append attempt, and a failed append is
\* not retried: once the failure is reported the handler is over.
C4_AtMostOneAppend ==
    \A m \in MsgIds :
        /\ msgs[m].appendCalls <= 1
        /\ msgs[m].result \in {"failed", "threw"} => msgs[m].pc = "done"

\* C4 witness: an append was attempted once, failed, and the handler is over.
C4_Witness ==
    \E m \in MsgIds :
        /\ msgs[m].pc = "done"
        /\ msgs[m].result = "failed"
        /\ msgs[m].appendCalls = 1
        /\ msgs[m].replies = <<FailedReply(build)>>

\* C5: the parser is invoked exactly when the content begins with the command
\* word compared case-insensitively and the author is not a bot; a bot's
\* message is never parsed, appended or replied to.
C5_ParsedIffCommandPrefix ==
    \A m \in MsgIds :
        msgs[m].pc # "none" =>
            /\ (msgs[m].parsed.kind # "notcalled") <=>
                  (/\ StartsWith(LowerStr(msgs[m].content), Prefix)
                   /\ ~msgs[m].author.bot)
            /\ msgs[m].author.bot =>
                  (/\ msgs[m].parsed.kind = "notcalled"
                   /\ msgs[m].appendCalls = 0
                   /\ msgs[m].replies = <<>>)

\* C6: when no token remains after the amount, the category and an extracted
\* trailing date, the description is the placeholder 'No description' (and
\* the date is the given one).
C6_PlaceholderDescription ==
    \A m \in MsgIds :
        LET parts == Parts(msgs[m].content)
        IN  /\ (msgs[m].parsed.kind = "record" /\ Len(parts) = 2) =>
                  msgs[m].parsed.description = NoDescription
            /\ (/\ msgs[m].parsed.kind = "record"
                /\ Len(parts) = 3
                /\ IsDateToken(parts[3])) =>
                  /\ msgs[m].parsed.description = NoDescription
                  /\ msgs[m].parsed.date = parts[3]

\* an amount token as C7 wants it: after at most one leading '$', digits and
\* at most one decimal point
WellFormedAmountToken(t) ==
    LET u == IF Len(t) > 0 /\ t[1] = "$" THEN Tail(t) ELSE t
    IN  /\ \A i \in 1..Len(u) : IsDigit(u[i]) \/ u[i] = "."
        /\ Cardinality({ i \in 1..Len(u) : u[i] = "." }) <= 1

\* C7: parseExpense returns a record only if the amount token, after at most
\* one leading currency symbol, consists of digits and at most one decimal
\* point; any other first token is rejected.
C7_AmountTokenStrict ==
    \A m \in MsgIds :
        msgs[m].parsed.kind = "record" =>
            WellFormedAmountToken(Parts(msgs[m].content)[1])

\* C8: every record parseExpense returns has a finite amount that is not
\* negative, a non-empty category and a date of the form dddd-dd-dd.
C8_RecordInvariant ==
    \A m \in MsgIds :
        msgs[m].parsed.kind = "record" =>
            /\ msgs[m].parsed.amount.kind = "number"
            /\ ~(msgs[m].parsed.amount.neg /\ msgs[m].parsed.amount.mant > 0)
            /\ Len(msgs[m].parsed.category) > 0
            /\ IsDateToken(msgs[m].parsed.date)

\* C9: in src/index.js a non-bot message that is exactly '!expensehelp' is
\* answered with the help embed and with nothing else.
C9_HelpAnswered ==
    \A m \in MsgIds :
        (/\ build = "index"
         /\ Finished(m)
         /\ ~msgs[m].author.bot
         /\ msgs[m].content = HelpCommand) =>
            msgs[m].replies = <<HelpReply>>

\* C10: when sheet initialization has failed, the ready handler has logged
\* 'Failed to initialize sheet' and ended the process with exit status 1, so
\* that no command is handled afterwards.
C10_FailedInitExits ==
    (sheetInit = "failed" /\ readyPc = "done") =>
        /\ proc = "exited"
        /\ exitCode = 1
        /\ "Failed to initialize sheet" \in log

=============================================================================
